---- MODULE Spec2Model ----
(***************************************************************************)
(* Bluestreak: the StreakManager of a browser extension that computes a    *)
(* posting streak from a paginated public feed.                            *)
(*                                                                         *)
(* The model follows the StreakManager class with the refresh guard        *)
(* (isRefreshing).  One JavaScript task (a callback together with the      *)
(* microtasks it triggers) is one action; every await on a timer or on the *)
(* network ends an action.  Instants are counted in ticks, TicksPerDay     *)
(* ticks to a UTC calendar day; Date.setDate(getDate() - 1) is a step of   *)
(* one whole day (24 hours, no daylight-saving change in between).         *)
(*                                                                         *)
(* The repository also holds content.js, the same class without the guard  *)
(* and without the today check; its timer callback and its refreshStreak   *)
(* are modelled over the same state as a specification of their own.       *)
(***************************************************************************)
EXTENDS Integers, Sequences, FiniteSets, TLC

\* ---------------------------------------------------------------- bounds
TicksPerDay == 2      \* instants per UTC calendar day
MaxBack == 2          \* the feed holds posts of the current day and MaxBack days before
PageLimit == 2        \* posts per page of a history request (limit: '100')
TodayLimit == 1       \* posts of the today request (limit: '5')
MaxSignals == 2       \* readiness signals (calls of updateOrInsertStreakInfo)
MaxClicks == 2        \* clicks on the refresh button
MaxFaults == 4        \* failed or malformed responses
MaxTicks == 1         \* advances of the wall clock

\* ------------------------------------------------------ program constants
Retries == 3
BackoffBaseMs == 1000
DebounceMs == 300

VARIABLES
  clock,            \* wall clock: the current instant
  posts,            \* the account's feed: the indexedAt instants of its posts,
                    \* at most one post a day
  trailing,         \* whether the server hands out a cursor with the last posts
  cache,            \* this.cache: a map from cache keys (UTC days) to booleans
  store,            \* localStorage 'bluestreak': {} or one record
  debounceTimeout,  \* this.debounceTimeout: no timer ("null"), or a timer that is
                    \* "pending" or "done" (fired or cleared), and its delay
  isRefreshing,     \* this.isRefreshing
  refresh,          \* the accepted refreshStreak call: "idle", "delay", "update"
  runs,             \* the invocations of updateFunc in progress, by start number
  started,          \* history: how many invocations of updateFunc have started
  ended,            \* history: the invocation of updateFunc that ended last
  dom,              \* the elements the extension keeps in the page
  budget,           \* what the environment may still do
  calls             \* history of getPostsForDay: what it returned since the cache
                    \* was cleared, its last call that used the network, and
                    \* the calls the last task had answered from the cache

vars == <<clock, posts, trailing, cache, store, debounceTimeout, isRefreshing,
          refresh, runs, started, ended, dom, budget, calls>>

\* ------------------------------------------------------------------ dates
Max(S) == CHOOSE x \in S : \A y \in S : y <= x

RECURSIVE Pow(_, _)
\* Math.pow on naturals
Pow(b, n) == IF n = 0 THEN 1 ELSE b * Pow(b, n - 1)

\* StreakManager.getUTCDate: the UTC calendar day of an instant
getUTCDate(date) == date \div TicksPerDay

\* date.setDate(date.getDate() - 1)
DayBefore(date) == date - TicksPerDay

\* the UTC days of the feed; a day's post is indexed at the day's first instant
Days == 0 .. MaxBack

PostOf(day) == day * TicksPerDay

\* ------------------------------------------------------------- the server
RECURSIVE FeedSeq(_)
\* the feed, most recent post first
FeedSeq(S) == IF S = {} THEN << >>
              ELSE LET m == Max(S) IN <<m>> \o FeedSeq(S \ {m})

Min2(a, b) == IF a < b THEN a ELSE b

\* whether the feed holds a post of UTC day d
HasPostOn(d) == \E p \in posts : getUTCDate(p) = d

RECURSIVE Consecutive(_)
\* the number of consecutive days d, d - 1, ... that each hold a post
Consecutive(d) == IF HasPostOn(d) THEN 1 + Consecutive(d - 1) ELSE 0

\* app.bsky.feed.getAuthorFeed: the page that follows `cursor` (0: no cursor),
\* at most `limit` posts, and the cursor of the next page (0: none)
ServerPage(cursor, limit) ==
  LET all  == FeedSeq(posts)
      feed == SubSeq(all, cursor + 1, Min2(cursor + limit, Len(all)))
      next == cursor + Len(feed)
  IN [kind |-> "ok", feed |-> feed,
      cursor |-> IF Len(feed) = 0 THEN 0
                 ELSE IF next < Len(all) \/ trailing THEN next ELSE 0]

\* what a request can come back with: the page; a failure of fetch or of
\* response.json() (timeout, transport error, a body that is not JSON); a JSON
\* body without a feed array (an error body of the service)
Responses(cursor, limit) ==
  {ServerPage(cursor, limit)}
    \cup (IF budget.faults > 0
          THEN {[kind |-> "error", feed |-> << >>, cursor |-> 0],
                [kind |-> "nofeed", feed |-> << >>, cursor |-> 0]}
          ELSE {})

Spend(what) == [budget EXCEPT ![what] = @ - 1]

\* the environment after a response of kind `kind`
Answered(b, kind) ==
  IF kind = "ok" THEN b ELSE [b EXCEPT !.faults = @ - 1, !.failed = @ + 1]

\* ---------------------------------------------------------------- the DOM
NoDom == [main |-> {}, loading |-> 0, errors |-> << >>]

\* removeExistingStreakContainers
removeExistingStreakContainers(d) == NoDom

\* createLoadingIndicator, appended to the container
createLoadingIndicator(d) == [d EXCEPT !.loading = @ + 1]

\* createStreakDisplay
createStreakDisplay(d, streak, postedToday) ==
  [d EXCEPT !.main = @ \cup {[streak |-> streak, postedToday |-> postedToday,
                              text |-> "streak", button |-> "refresh"]}]

\* showError: the first existing error is removed, the new one appended
showError(d, message) ==
  [d EXCEPT !.errors = Append(IF Len(@) > 0 THEN Tail(@) ELSE @, message)]


\* ------------------------------------------------------- getPostsForDay
Str(b) == IF b THEN "true" ELSE "false"

\* the cache key of a date: `${handle}-${getUTCDate(date)}`, one handle a session
cacheKey(date) == getUTCDate(date)

\* this.cache.has(cacheKey)
CacheHas(c, key) == key \in DOMAIN c

\* this.cache.set(cacheKey, foundPost)
CacheSet(c, key, found) == [k \in DOMAIN c \cup {key} |-> IF k = key THEN found ELSE c[k]]

\* the booleans getPostsForDay has returned for `key` since the cache was last cleared
Prior(k, key) == {p[2] : p \in {q \in k.returned : q[1] = key}}

NoCall ==
  [day |-> -1, result |-> "none", prior |-> {}, asked |-> << >>, pages |-> << >>,
   waits |-> << >>, fails |-> << >>, total |-> 0]

NoCalls == [returned |-> {}, net |-> NoCall, hits |-> {}]

\* a getPostsForDay call that goes to the network: the first request is issued
NewLookup(key, k) ==
  [day |-> key, retries |-> Retries, cursor |-> 0, asked |-> <<0>>, total |-> 1,
   waits |-> << >>, fails |-> << >>, pages |-> << >>, prior |-> Prior(k, key)]

\* history: a call is answered from the cache
Hit(c, k, key) ==
  [k EXCEPT !.returned = @ \cup {<<key, Str(c[key])>>},
            !.hits = @ \cup {[day |-> key, result |-> Str(c[key]),
                              prior |-> Prior(k, key), total |-> 0]}]

\* history: a call ends after its requests, with "true", "false" or "thrown"
End(k, lk, result) ==
  [k EXCEPT !.returned = IF result = "thrown" THEN @ ELSE @ \cup {<<lk.day, result>>},
            !.net = [day |-> lk.day, result |-> result, prior |-> lk.prior,
                     asked |-> lk.asked, pages |-> lk.pages, waits |-> lk.waits,
                     fails |-> lk.fails, total |-> lk.total]]

\* data.feed.some(post => getUTCDate(new Date(post.post.indexedAt)) === targetDate)
FeedHasDay(feed, day) == \E n \in 1 .. Len(feed) : getUTCDate(feed[n]) = day

\* OnPage with the loop going on after a match while there is a cursor
OnPageNoStop(lk, resp) ==
  IF resp.kind = "nofeed" \/ Len(resp.feed) = 0
  THEN [st |-> "done", found |-> FALSE, cursor |-> lk.cursor]
  ELSE IF resp.cursor # 0
  THEN [st |-> "more", found |-> FALSE, cursor |-> resp.cursor]
  ELSE [st |-> "done", found |-> FeedHasDay(resp.feed, lk.day), cursor |-> lk.cursor]

\* one turn of the while (!foundPost) loop on a parsed body: "more" when the
\* next page is requested, "done" when the loop is left
OnPage(lk, resp) ==
  IF resp.kind = "nofeed" \/ Len(resp.feed) = 0
  THEN [st |-> "done", found |-> FALSE, cursor |-> lk.cursor]
  ELSE LET foundPost == FeedHasDay(resp.feed, lk.day)
       IN IF ~foundPost /\ resp.cursor # 0
          THEN [st |-> "more", found |-> FALSE, cursor |-> resp.cursor]
          ELSE [st |-> "done", found |-> foundPost, cursor |-> lk.cursor]

\* BackoffMs with the exponent taken from the retries left
BackoffMsByRetries(retries) == Pow(2, retries) * BackoffBaseMs

\* the wait before the retry: Math.pow(2, 3 - retries) * 1000
BackoffMs(retries) == Pow(2, 3 - retries) * BackoffBaseMs

\* the catch of getPostsForDay after the request of lk.cursor failed: wait and
\* call again, or throw
OnError(lk) ==
  LET lk1 == [lk EXCEPT !.fails = Append(@, lk.cursor)]
  IN IF lk.retries > 0
     THEN [st |-> "backoff", lk |-> [lk1 EXCEPT !.waits = Append(@, BackoffMs(lk.retries))]]
     ELSE [st |-> "thrown", lk |-> lk1]

\* Retry with the retries left passed on as they are
RetryKeepBudget(lk) ==
  [lk EXCEPT !.cursor = 0, !.asked = <<0>>, !.pages = << >>, !.total = @ + 1]

\* the call getPostsForDay(handle, date, retries - 1) that goes to the network
Retry(lk) ==
  [lk EXCEPT !.retries = @ - 1, !.cursor = 0, !.asked = <<0>>, !.pages = << >>,
             !.total = @ + 1]

\* ------------------------------------------------------- calculateStreak
RECURSIVE Walk(_, _, _)
\* the while (true) loop from r.cur on, as far as the cache answers: the run
\* either returns its streak or awaits the lookup of r.cur
Walk(r, c, k) ==
  LET key == cacheKey(r.cur)
  IN IF CacheHas(c, key)
     THEN IF c[key]
          THEN Walk([r EXCEPT !.streak = @ + 1, !.cur = DayBefore(@)], c, Hit(c, k, key))
          ELSE [run |-> [r EXCEPT !.pc = "return"], cache |-> c, calls |-> Hit(c, k, key)]
     ELSE [run |-> [r EXCEPT !.pc = "lookup", !.phase = "walk", !.lk = NewLookup(key, k)],
           cache |-> c, calls |-> k]

\* calculateStreak with the walk starting on the current day
calculateStreakFromToday(r, c, k, now) ==
  Walk([r EXCEPT !.D = now, !.cur = now, !.streak = 0], c, k)

\* calculateStreak called at instant `now`
calculateStreak(r, c, k, now) ==
  LET yesterday == DayBefore(now)
      key == cacheKey(yesterday)
      r1 == [r EXCEPT !.D = now, !.cur = yesterday, !.streak = 0]
  IN IF CacheHas(c, key)
     THEN IF ~c[key]
          THEN [run |-> [r1 EXCEPT !.pc = "return"], cache |-> c,
                calls |-> Hit(c, k, key)]
          ELSE Walk(r1, c, Hit(c, k, key))
     ELSE [run |-> [r1 EXCEPT !.pc = "lookup", !.phase = "first", !.lk = NewLookup(key, k)],
           cache |-> c, calls |-> k]

\* calculateStreak resumed when the lookup it awaits has returned `found`
AfterLookup(r, c, k, found) ==
  IF ~found
  THEN [run |-> [r EXCEPT !.pc = "return"], cache |-> c, calls |-> k]
  ELSE IF r.phase = "first"
  THEN Walk(r, c, k)
  ELSE Walk([r EXCEPT !.streak = @ + 1, !.cur = DayBefore(@)], c, k)

\* LookupThrown with the walk left on the error and its count returned
LookupThrownPartial(r) == [r EXCEPT !.pc = "return"]

\* calculateStreak when the lookup it awaits has thrown: the loop's catch
\* shows its own error before the error reaches updateFunc
LookupThrown(r) ==
  [r EXCEPT !.pc = "thrown", !.why = "lookup",
            !.errs = IF r.phase = "walk"
                     THEN <<"Error calculating streak. Please try again later.">>
                     ELSE << >>]

\* ------------------------------------------------------------ updateFunc
NoLookup ==
  [day |-> -1, retries |-> 0, cursor |-> 0, asked |-> << >>, total |-> 0,
   waits |-> << >>, fails |-> << >>, pages |-> << >>, prior |-> {}]

\* a run of updateFunc that has issued the request of checkRecentPostsForToday;
\* kind: "timer" (the debounce timer's callback), "signal" (called at once by
\* updateOrInsertStreakInfo) or "refresh" (awaited by refreshStreak)
NewRun(kind, id) ==
  [kind |-> kind, id |-> id, pc |-> "today", phase |-> "none", postedToday |-> FALSE,
   today |-> -1, todayResp |-> "none", D |-> -1, cur |-> -1, streak |-> 0,
   lk |-> NoLookup, clean |-> TRUE, why |-> "", errs |-> << >>, out |-> << >>]

NoRun == [NewRun("none", 0) EXCEPT !.pc = "none"]

Event(op, n, flag) == [op |-> op, n |-> n, flag |-> flag]

\* updateFuncTail with the record written before today's post is added
updateFuncTailEarlySave(r, st, d, now) ==
  LET total == r.streak + (IF r.postedToday THEN 1 ELSE 0)
  IN [run |-> [r EXCEPT !.pc = "done", !.lk = NoLookup, !.phase = "none", !.cur = -1,
                        !.out = <<Event("setItem", r.streak, FALSE),
                                  Event("display", total, r.postedToday)>>],
      store |-> {[streakDate |-> now, streakNumber |-> r.streak]},
      dom |-> createStreakDisplay(removeExistingStreakContainers(d), total,
                                  r.postedToday)]

\* lines 217-229: the total, localStorage.setItem, then the display
updateFuncTail(r, st, d, now) ==
  LET total == r.streak + (IF r.postedToday THEN 1 ELSE 0)
  IN [run |-> [r EXCEPT !.pc = "done", !.lk = NoLookup, !.phase = "none", !.cur = -1,
                        !.out = <<Event("setItem", total, FALSE),
                                  Event("display", total, r.postedToday)>>],
      store |-> {[streakDate |-> now, streakNumber |-> total]},
      dom |-> createStreakDisplay(removeExistingStreakContainers(d), total,
                                  r.postedToday)]

RECURSIVE ShowAll(_, _)
ShowAll(d, msgs) ==
  IF msgs = << >> THEN d ELSE ShowAll(showError(d, Head(msgs)), Tail(msgs))

\* lines 231-234: the catch of updateFunc, after the errors shown on the way
updateFuncCatch(r, st, d) ==
  [run |-> [r EXCEPT !.pc = "failed", !.lk = NoLookup, !.phase = "none", !.cur = -1,
                     !.clean = FALSE],
   store |-> st,
   dom |-> ShowAll(d, Append(r.errs, "Failed to update streak. Please refresh."))]

\* Settle with the guard kept when the refreshStreak call ends
SettleKeepGuard(i, o) ==
  LET e == IF o.run.pc = "return" THEN updateFuncTail(o.run, store, dom, clock')
           ELSE IF o.run.pc = "thrown" THEN updateFuncCatch(o.run, store, dom)
           ELSE [run |-> o.run, store |-> store, dom |-> dom]
      over == e.run.pc \in {"done", "failed"}
  IN /\ runs' = IF over THEN [j \in DOMAIN runs \ {i} |-> runs[j]]
                ELSE [runs EXCEPT ![i] = e.run]
     /\ ended' = IF over THEN e.run ELSE ended
     /\ cache' = o.cache
     /\ calls' = o.calls
     /\ store' = e.store
     /\ dom' = e.dom
     /\ isRefreshing' = isRefreshing
     /\ refresh' = IF over /\ e.run.kind = "refresh" THEN "idle" ELSE refresh

\* the end of a task of run i with outcome o = [run, cache, calls]: the run
\* goes on waiting, or updateFunc ends and a refreshStreak that awaits it
\* reaches its finally
Settle(i, o) ==
  LET e == IF o.run.pc = "return" THEN updateFuncTail(o.run, store, dom, clock')
           ELSE IF o.run.pc = "thrown" THEN updateFuncCatch(o.run, store, dom)
           ELSE [run |-> o.run, store |-> store, dom |-> dom]
      over == e.run.pc \in {"done", "failed"}
  IN /\ runs' = IF over THEN [j \in DOMAIN runs \ {i} |-> runs[j]]
                ELSE [runs EXCEPT ![i] = e.run]
     /\ ended' = IF over THEN e.run ELSE ended
     /\ cache' = o.cache
     /\ calls' = o.calls
     /\ store' = e.store
     /\ dom' = e.dom
     /\ isRefreshing' = IF over /\ e.run.kind = "refresh" THEN FALSE ELSE isRefreshing
     /\ refresh' = IF over /\ e.run.kind = "refresh" THEN "idle" ELSE refresh

\* checkRecentPostsForToday without its catch
checkRecentPostsForTodayNoCatch(resp, now) ==
  IF resp.kind = "ok" THEN Str(FeedHasDay(resp.feed, getUTCDate(now))) ELSE "thrown"

\* checkRecentPostsForToday on the response of its one request: "true",
\* "false", or "thrown" were an error to leave it; a failed fetch, a body that
\* does not parse and a body without feed (data.feed.some throws) are caught
checkRecentPostsForToday(resp, now) ==
  IF resp.kind = "ok" THEN Str(FeedHasDay(resp.feed, getUTCDate(now))) ELSE "false"

\* the calls of the task that begins
Task(k) == [k EXCEPT !.hits = {}]

\* the response of the today request arrives; calculateStreak starts in the
\* same task and reads the clock again
TodayResponse(i) ==
  /\ runs[i].pc = "today"
  /\ UNCHANGED <<posts, trailing, debounceTimeout, started>>
  /\ \E resp \in Responses(0, TodayLimit),
        adv \in 0 .. (IF budget.ticks > 0 THEN 1 ELSE 0) :
       LET t == checkRecentPostsForToday(resp, clock)
           r == [runs[i] EXCEPT !.postedToday = (t = "true"),
                                !.today = getUTCDate(clock),
                                !.todayResp = resp.kind,
                                !.clean = resp.kind = "ok"]
       IN /\ clock' = clock + adv
          /\ budget' = [Answered(budget, resp.kind) EXCEPT !.ticks = @ - adv]
          /\ IF t = "thrown"
             THEN Settle(i, [run |-> [r EXCEPT !.pc = "thrown", !.why = "today"],
                             cache |-> cache, calls |-> Task(calls)])
             ELSE Settle(i, calculateStreak(r, cache, Task(calls), clock + adv))

\* the task of run r in which the response of a page request of
\* getPostsForDay arrives, up to the return or throw of calculateStreak
OnPageResponse(r, resp, c, k) ==
  LET lk == r.lk
  IN IF resp.kind = "error"
     THEN LET e == OnError(lk)
          IN IF e.st = "backoff"
             THEN [run |-> [r EXCEPT !.pc = "backoff", !.clean = FALSE, !.lk = e.lk],
                   cache |-> c, calls |-> k]
             ELSE [run |-> LookupThrown(r), cache |-> c,
                   calls |-> End(k, e.lk, "thrown")]
     ELSE LET p   == OnPage(lk, resp)
              lk2 == [lk EXCEPT !.pages = Append(@, resp)]
              r2  == [r EXCEPT !.clean = @ /\ resp.kind = "ok"]
          IN IF p.st = "more"
             THEN [run |-> [r2 EXCEPT !.lk = [lk2 EXCEPT !.cursor = p.cursor,
                                                         !.asked = Append(@, p.cursor),
                                                         !.total = @ + 1]],
                   cache |-> c, calls |-> k]
             ELSE AfterLookup(r2, CacheSet(c, lk.day, p.found),
                              End(k, lk2, Str(p.found)), p.found)

\* the response of a page request of getPostsForDay arrives
PageResponse(i) ==
  /\ runs[i].pc = "lookup"
  /\ UNCHANGED <<clock, posts, trailing, debounceTimeout, started>>
  /\ \E resp \in Responses(runs[i].lk.cursor, PageLimit) :
       /\ budget' = Answered(budget, resp.kind)
       /\ Settle(i, OnPageResponse(runs[i], resp, cache, Task(calls)))

\* the task of run r in which the backoff timer of a retry fires:
\* getPostsForDay(handle, date, retries - 1)
OnBackoffDone(r, c, k) ==
  LET lk == r.lk
  IN IF CacheHas(c, lk.day)
     THEN AfterLookup([r EXCEPT !.pc = "lookup"], c,
                      End(k, [lk EXCEPT !.asked = << >>, !.pages = << >>],
                          Str(c[lk.day])),
                      c[lk.day])
     ELSE [run |-> [r EXCEPT !.pc = "lookup", !.lk = Retry(lk)],
           cache |-> c, calls |-> k]

\* the backoff timer of a retry fires
BackoffDone(i) ==
  /\ runs[i].pc = "backoff"
  /\ UNCHANGED <<clock, posts, trailing, debounceTimeout, budget, started>>
  /\ Settle(i, OnBackoffDone(runs[i], cache, Task(calls)))

\* updateFunc up to its first request (lines 198-212), started as `kind`; b is
\* what is left to the environment; the page it finds is "ok", or lacks the
\* Help link ("help": line 200 throws, and showError has nowhere to append
\* to), or lacks the Profile link ("profile": getProfile throws)
updateFunc(kind, b) ==
  \E page \in (IF b.faults > 0 THEN {"ok", "help", "profile"} ELSE {"ok"}) :
    LET r == NewRun(kind, started + 1)
        profile == page = "ok"
    IN /\ budget' = (IF profile THEN b ELSE Answered(b, "error"))
       /\ started' = started + 1
       /\ runs' = (IF profile
                   THEN [j \in DOMAIN runs \cup {r.id} |-> IF j = r.id THEN r ELSE runs[j]]
                   ELSE runs)
       /\ ended' = (IF profile THEN ended
                    ELSE [r EXCEPT !.pc = "failed", !.clean = FALSE, !.why = page])
       /\ dom' = (IF page = "help"
                  THEN dom
                  ELSE IF page = "profile"
                  THEN showError(dom, "Failed to update streak. Please refresh.")
                  ELSE IF ~isRefreshing
                  THEN createLoadingIndicator(removeExistingStreakContainers(dom))
                  ELSE dom)
       /\ refresh' = (IF kind # "refresh" THEN refresh
                      ELSE IF profile THEN "update" ELSE "idle")
       /\ isRefreshing' = (IF kind = "refresh" /\ ~profile THEN FALSE ELSE isRefreshing)

\* ------------------------------------------- updateOrInsertStreakInfo
\* a readiness signal: the observer calls updateOrInsertStreakInfo
updateOrInsertStreakInfo ==
  /\ budget.signals > 0
  /\ IF isRefreshing
     THEN /\ updateFunc("signal", Spend("signals"))
          /\ UNCHANGED debounceTimeout
     ELSE /\ debounceTimeout' = [st |-> "pending", ms |-> DebounceMs]
          /\ budget' = Spend("signals")
          /\ UNCHANGED <<runs, started, ended, dom, refresh, isRefreshing>>
  /\ UNCHANGED <<clock, posts, trailing, cache, store, calls>>

\* the debounce timer fires: setTimeout(updateFunc, 300)
TimerFire ==
  /\ debounceTimeout.st = "pending"
  /\ debounceTimeout' = [debounceTimeout EXCEPT !.st = "done"]
  /\ updateFunc("timer", budget)
  /\ UNCHANGED <<clock, posts, trailing, cache, store, calls>>

\* refreshStreak without the isRefreshing guard
refreshStreakNoGuard ==
  /\ budget.clicks > 0
  /\ dom.main # {}
  /\ budget' = Spend("clicks")
  /\ isRefreshing' = TRUE
  /\ refresh' = "delay"
  /\ dom' = [dom EXCEPT !.main = {[m EXCEPT !.text = "Refreshing...",
                                            !.button = "hourglass"] : m \in @}]
  /\ cache' = << >>
  /\ calls' = [calls EXCEPT !.returned = {}, !.hits = {}]
  /\ store' = {}
  /\ UNCHANGED <<clock, posts, trailing, debounceTimeout, runs, started, ended>>

\* ---------------------------------------------------------- refreshStreak
\* a click on the refresh button of the displayed streak
refreshStreak ==
  /\ budget.clicks > 0
  /\ dom.main # {}
  /\ IF isRefreshing
     THEN /\ budget' = [Spend("clicks") EXCEPT !.dropped = @ + 1]
          /\ UNCHANGED <<isRefreshing, refresh, dom, cache, store, calls>>
     ELSE /\ budget' = Spend("clicks")
          /\ isRefreshing' = TRUE
          /\ refresh' = "delay"
          /\ dom' = [dom EXCEPT !.main = {[m EXCEPT !.text = "Refreshing...",
                                                    !.button = "hourglass"] : m \in @}]
          /\ cache' = << >>
          /\ calls' = [calls EXCEPT !.returned = {}, !.hits = {}]
          /\ store' = {}
  /\ UNCHANGED <<clock, posts, trailing, debounceTimeout, runs, started, ended>>

\* the 500 ms of refreshStreak are over: await this.updateOrInsertStreakInfo()
RefreshDelayDone ==
  /\ refresh = "delay"
  /\ updateFunc("refresh", budget)
  /\ UNCHANGED <<clock, posts, trailing, cache, store, calls, debounceTimeout>>

\* the wall clock advances
Tick ==
  /\ budget.ticks > 0
  /\ clock' = clock + 1
  /\ budget' = Spend("ticks")
  /\ UNCHANGED <<posts, trailing, cache, store, debounceTimeout, isRefreshing,
                 refresh, runs, started, ended, dom, calls>>

\* ---------------------------------------------------------------- content.js
\* The StreakManager of content.js: no refresh guard and no today check;
\* every trigger is debounced, the timer callback reads the persisted record,
\* and calculateStreak starts its walk on the current day.  getPostsForDay,
\* showError and the display are those of the class above.

NoRecord == [streakDate |-> -1, streakNumber |-> 0]

\* JSON.parse(localStorage.getItem('bluestreak')) || {}, with the defaults of
\* the destructuring (streakDate undefined: -1)
contentRecord(st) == IF st = {} THEN NoRecord ELSE CHOOSE x \in st : TRUE

\* content.js lines 161-186: what the callback decides on the record it
\* read.  streakDate === today compares a string with a Date and is false;
\* streakDate < today compares an ISO string with a Date, NaN < number, and
\* is false: with a dated record nothing is computed.  The difference of the
\* getDate() values is taken as a difference of days.
contentDecide(st, now) ==
  LET rec == contentRecord(st)
  IN IF rec.streakDate # -1 /\ getUTCDate(now) - getUTCDate(rec.streakDate) > 1
     THEN [recompute |-> FALSE, streak |-> 0, streakDate |-> rec.streakDate]
     ELSE IF rec.streakDate = -1
     THEN [recompute |-> TRUE, streak |-> 0, streakDate |-> -1]
     ELSE [recompute |-> FALSE, streak |-> rec.streakNumber, streakDate |-> rec.streakDate]

\* content.js calculateStreak called at instant `now`: the walk starts today
contentCalculateStreak(r, c, k, now) ==
  Walk([r EXCEPT !.D = now, !.cur = now, !.streak = 0], c, k)

\* content.js lines 188-194: localStorage.setItem, then the display
contentTail(r, d, streakDate) ==
  [run |-> [r EXCEPT !.pc = "done", !.lk = NoLookup, !.phase = "none", !.cur = -1,
                     !.out = <<Event("setItem", r.streak, FALSE),
                               Event("display", r.streak, r.postedToday)>>],
   store |-> {[streakDate |-> streakDate, streakNumber |-> r.streak]},
   dom |-> createStreakDisplay(removeExistingStreakContainers(d), r.streak,
                               r.postedToday)]

\* the end of a task of run i of the content.js callback with outcome o, the
\* page being d: hasPostedToday = streak > 0 when calculateStreak returns
contentSettle(i, o, d) ==
  LET posted == o.run.streak > 0
      e == IF o.run.pc = "return"
           THEN contentTail([o.run EXCEPT !.postedToday = posted], d,
                            IF posted THEN PostOf(o.run.today) ELSE -1)
           ELSE IF o.run.pc = "thrown" THEN updateFuncCatch(o.run, store, d)
           ELSE [run |-> o.run, store |-> store, dom |-> d]
      over == e.run.pc \in {"done", "failed"}
  IN /\ runs' = IF over THEN [j \in DOMAIN runs \ {i} |-> runs[j]]
                ELSE [j \in DOMAIN runs \cup {i} |-> IF j = i THEN e.run ELSE runs[j]]
     /\ ended' = IF over THEN e.run ELSE ended
     /\ cache' = o.cache
     /\ calls' = o.calls
     /\ store' = e.store
     /\ dom' = e.dom

\* content.js updateOrInsertStreakInfo called by the observer
contentUpdateOrInsertStreakInfo ==
  /\ budget.signals > 0
  /\ budget' = Spend("signals")
  /\ debounceTimeout' = [st |-> "pending", ms |-> DebounceMs]
  /\ UNCHANGED <<clock, posts, trailing, cache, store, isRefreshing, refresh, runs,
                 started, ended, dom, calls>>

\* content.js refreshStreak: a click on the refresh button
contentRefreshStreak ==
  /\ budget.clicks > 0
  /\ dom.main # {}
  /\ budget' = Spend("clicks")
  /\ store' = {}
  /\ debounceTimeout' = [st |-> "pending", ms |-> DebounceMs]
  /\ UNCHANGED <<clock, posts, trailing, cache, isRefreshing, refresh, runs, started,
                 ended, dom, calls>>

\* the debounce timer fires: the callback of content.js lines 152-200
contentTimerFire ==
  /\ debounceTimeout.st = "pending"
  /\ debounceTimeout' = [debounceTimeout EXCEPT !.st = "done"]
  /\ started' = started + 1
  /\ UNCHANGED <<clock, posts, trailing, isRefreshing, refresh>>
  /\ \E page \in (IF budget.faults > 0 THEN {"ok", "help", "profile"} ELSE {"ok"}) :
       LET r   == [NewRun("timer", started + 1) EXCEPT !.today = getUTCDate(clock)]
           d   == createLoadingIndicator(removeExistingStreakContainers(dom))
           dec == contentDecide(store, clock)
       IN /\ budget' = (IF page = "ok" THEN budget ELSE Answered(budget, "error"))
          /\ IF page # "ok"
             THEN /\ ended' = [r EXCEPT !.pc = "failed", !.clean = FALSE, !.why = page]
                  /\ dom' = (IF page = "help" THEN dom
                             ELSE showError(dom, "Failed to update streak. Please refresh."))
                  /\ UNCHANGED <<runs, cache, calls, store>>
             ELSE IF ~dec.recompute
             THEN LET e == contentTail([r EXCEPT !.streak = dec.streak, !.D = clock],
                                       d, dec.streakDate)
                  IN /\ ended' = e.run
                     /\ store' = e.store
                     /\ dom' = e.dom
                     /\ UNCHANGED <<runs, cache, calls>>
             ELSE contentSettle(r.id, contentCalculateStreak(r, cache, Task(calls), clock), d)

\* content.js: the response of a page request of getPostsForDay arrives
contentPageResponse(i) ==
  /\ runs[i].pc = "lookup"
  /\ UNCHANGED <<clock, posts, trailing, debounceTimeout, started, isRefreshing, refresh>>
  /\ \E resp \in Responses(runs[i].lk.cursor, PageLimit) :
       /\ budget' = Answered(budget, resp.kind)
       /\ contentSettle(i, OnPageResponse(runs[i], resp, cache, Task(calls)), dom)

\* content.js: the backoff timer of a retry fires
contentBackoffDone(i) ==
  /\ runs[i].pc = "backoff"
  /\ UNCHANGED <<clock, posts, trailing, debounceTimeout, budget, started,
                 isRefreshing, refresh>>
  /\ contentSettle(i, OnBackoffDone(runs[i], cache, Task(calls)), dom)

\* ------------------------------------------------------------------ system
\* what the environment does in a session: readiness signals, clicks on the
\* refresh button, failed or malformed responses, advances of the clock, and
\* the posts of the feed; failed and dropped count what has happened
Session(signals, clicks, faults, ticks, nposts) ==
  [signals |-> signals, clicks |-> clicks, faults |-> faults, ticks |-> ticks,
   posts |-> nposts, failed |-> 0, dropped |-> 0]

\* the sessions explored: a failing network under one run; a refresh over any
\* feed; many signals and a click, two runs at once under a failing
\* network, and many clicks, over a short feed
Sessions ==
  {Session(1, 0, MaxFaults, MaxTicks, MaxBack + 1),
   Session(1, 1, 2, MaxTicks, MaxBack + 1),
   Session(MaxSignals, 1, 1, 0, 1),
   Session(2, 0, Retries + 1, 0, 1),
   Session(1, MaxClicks, 1, 0, 1)}

\* the state after construction, in one of the sessions ss
InitIn(ss) ==
  /\ budget \in ss
  /\ clock = MaxBack * TicksPerDay + TicksPerDay - 1
  /\ posts \in {{PostOf(d) : d \in S} :
                  S \in {T \in SUBSET Days : Cardinality(T) <= budget.posts}}
  /\ trailing \in BOOLEAN
  /\ cache = << >>
  /\ store = {}
  /\ debounceTimeout = [st |-> "null", ms |-> 0]
  /\ isRefreshing = FALSE
  /\ refresh = "idle"
  /\ runs = << >>
  /\ started = 0
  /\ ended = NoRun
  /\ dom = NoDom
  /\ calls = NoCalls

Init == InitIn(Sessions)

Next ==
  \/ updateOrInsertStreakInfo
  \/ TimerFire
  \/ refreshStreak
  \/ RefreshDelayDone
  \/ Tick
  \/ \E i \in DOMAIN runs : TodayResponse(i)
  \/ \E i \in DOMAIN runs : PageResponse(i)
  \/ \E i \in DOMAIN runs : BackoffDone(i)

Spec == Init /\ [][Next]_vars

\* the sessions explored of content.js
ContentSessions ==
  {Session(1, 1, MaxFaults, MaxTicks, MaxBack + 1),
   Session(MaxSignals, 1, 1, 0, MaxBack + 1)}

\* the record an earlier session of content.js has left: none, or the one it
\* wrote on the current day, or the one it wrote the day before, over this feed
ContentRecords ==
  LET left(day) == [streakDate |-> IF HasPostOn(day) THEN PostOf(day) ELSE -1,
                    streakNumber |-> Consecutive(day)]
  IN {{}, {left(getUTCDate(clock))}, {left(getUTCDate(clock) - 1)}}

ContentInit ==
  /\ budget \in ContentSessions
  /\ clock = MaxBack * TicksPerDay + TicksPerDay - 1
  /\ posts \in {{PostOf(d) : d \in S} :
                  S \in {T \in SUBSET Days : Cardinality(T) <= budget.posts}}
  /\ trailing \in BOOLEAN
  /\ cache = << >>
  /\ store \in ContentRecords
  /\ debounceTimeout = [st |-> "null", ms |-> 0]
  /\ isRefreshing = FALSE
  /\ refresh = "idle"
  /\ runs = << >>
  /\ started = 0
  /\ ended = NoRun
  /\ dom = NoDom
  /\ calls = NoCalls

ContentNext ==
  \/ contentUpdateOrInsertStreakInfo
  \/ contentTimerFire
  \/ contentRefreshStreak
  \/ Tick
  \/ \E i \in DOMAIN runs : contentPageResponse(i)
  \/ \E i \in DOMAIN runs : contentBackoffDone(i)

\* sessions with clicks on the refresh button: many clicks; a failing network
\* under the recomputation; an advancing clock; a signal during the refresh
RefreshSessions ==
  {Session(1, MaxClicks, 1, 0, 1),
   Session(1, 1, Retries + 1, 0, 1),
   Session(1, 1, 0, MaxTicks, 1),
   Session(2, 1, 0, 0, 1)}

\* the wait of a refresh and every backoff wait end, and every request is
\* answered or fails (fetchWithTimeout aborts a request after 5 s)
FairSpec ==
  /\ InitIn(RefreshSessions) /\ [][Next]_vars
  /\ WF_vars(RefreshDelayDone)
  /\ WF_vars(\E i \in DOMAIN runs : TodayResponse(i))
  /\ WF_vars(\E i \in DOMAIN runs : PageResponse(i))
  /\ WF_vars(\E i \in DOMAIN runs : BackoffDone(i))

SpecContent == ContentInit /\ [][ContentNext]_vars

\* ------------------------------------------------------------------ claims
\* the lookups of getPostsForDay in progress
Lookups == {runs[i].lk : i \in {j \in DOMAIN runs : runs[j].pc \in {"lookup", "backoff"}}}

\* C1: with no failed or malformed response in the session, calculateStreak
\* called on UTC day D returns the number of consecutive days D-1, D-2, ...
\* that hold a post (0 when D-1 holds none), whatever is posted on day D.
C1_HistoricalStreak ==
  (ended.pc = "done" /\ budget.failed = 0)
    => ended.streak = Consecutive(getUTCDate(ended.D) - 1)

C1_Witness ==
  /\ ended.pc = "done" /\ budget.failed = 0
  /\ ended.streak = 2 /\ HasPostOn(getUTCDate(ended.D))

\* C2: a run that completes writes the persisted record once and whole, with
\* streakNumber = historical streak + (1 if posted today), a natural number,
\* before it displays that same total with the postedToday flag.
C2_PersistThenDisplay ==
  [][(ended' # ended /\ ended'.pc = "done")
       => LET t == ended'.streak + (IF ended'.postedToday THEN 1 ELSE 0)
          IN /\ t \in Nat
             /\ ended'.out = <<Event("setItem", t, FALSE),
                               Event("display", t, ended'.postedToday)>>
             /\ store' = {[streakDate |-> clock', streakNumber |-> t]}
             /\ dom'.main = {[streak |-> t, postedToday |-> ended'.postedToday,
                              text |-> "streak", button |-> "refresh"]}]_vars

C2_Witness ==
  /\ ended.pc = "done" /\ ended.postedToday /\ ended.streak >= 1
  /\ store = {[streakDate |-> clock, streakNumber |-> ended.streak + 1]}

\* C3: once getPostsForDay has returned a boolean for a day, every later call
\* for that day (the cache not cleared in between) is answered with that
\* boolean and without a request.
C3_Memoized ==
  /\ \A h \in calls.hits : h.prior = {h.result} /\ h.total = 0
  /\ calls.net.result \in {"true", "false"} => calls.net.prior = {}

\* C4: the requests of a lookup follow the cursors; a page that holds a post
\* of the day ends the lookup with true and no further request; false is
\* returned only on a page that is empty or carries no cursor.
C4_Pagination ==
  /\ \A lk \in Lookups :
       /\ Len(lk.asked) = Len(lk.pages) + 1
       /\ lk.asked[1] = 0
       /\ \A n \in 1 .. Len(lk.pages) :
            /\ ~FeedHasDay(lk.pages[n].feed, lk.day)
            /\ lk.asked[n + 1] = lk.pages[n].cursor
  /\ LET e == calls.net
         last == e.pages[Len(e.pages)]
     IN (e.result \in {"true", "false"} /\ e.asked # << >>)
          => /\ Len(e.asked) = Len(e.pages)
             /\ e.asked[1] = 0
             /\ \A n \in 1 .. (Len(e.pages) - 1) :
                  /\ ~FeedHasDay(e.pages[n].feed, e.day)
                  /\ e.asked[n + 1] = e.pages[n].cursor
             /\ (e.result = "true") = FeedHasDay(last.feed, e.day)
             /\ e.result = "false" => (Len(last.feed) = 0 \/ last.cursor = 0)

C4_Witness ==
  /\ calls.net.result = "true"
  /\ Len(calls.net.pages) >= 2
  /\ calls.net.pages[Len(calls.net.pages)].cursor # 0

\* C5: the waits before the 2nd, 3rd and 4th attempt of a lookup are 1 s, 2 s
\* and 4 s; the 4th failure throws, with no further wait and no further attempt.
C5_Backoff ==
  /\ \A i \in DOMAIN runs :
       LET lk == runs[i].lk
       IN /\ runs[i].pc = "lookup"
               => /\ lk.waits = SubSeq(<<1000, 2000, 4000>>, 1, Retries - lk.retries)
                  /\ Len(lk.fails) = Len(lk.waits)
          /\ runs[i].pc = "backoff"
               => /\ lk.waits = SubSeq(<<1000, 2000, 4000>>, 1, Retries - lk.retries + 1)
                  /\ Len(lk.fails) = Len(lk.waits)
  /\ calls.net.result = "thrown"
       => /\ calls.net.waits = <<1000, 2000, 4000>>
          /\ Len(calls.net.fails) = 4

C5_Witness == calls.net.result = "thrown" /\ calls.net.fails = <<0, 0, 0, 0>>

\* C6 as stated: getPostsForDay throws only when one page request has failed
\* four times.
C6_PerPageBudget ==
  calls.net.result = "thrown"
    => \A n \in 1 .. Len(calls.net.fails) : calls.net.fails[n] = calls.net.fails[1]

\* C6 amended: the retries are those of the call: getPostsForDay throws exactly
\* when four requests of the call have failed, whichever pages they asked
\* for, and every retry asks for the first page again.
C6_PerCallBudget ==
  /\ \A i \in DOMAIN runs :
       LET lk == runs[i].lk
       IN /\ runs[i].pc \in {"lookup", "backoff"} => lk.retries \in 0 .. Retries
          /\ runs[i].pc = "lookup" => Len(lk.fails) = Retries - lk.retries
          /\ runs[i].pc = "backoff"
               => Len(lk.fails) = Retries - lk.retries + 1 /\ lk.retries > 0
          /\ runs[i].pc = "lookup" => lk.asked[1] = 0
  /\ calls.net.result = "thrown" => Len(calls.net.fails) = Retries + 1

C6_Witness ==
  /\ calls.net.result = "thrown"
  /\ \E n \in 1 .. Len(calls.net.fails) : calls.net.fails[n] # calls.net.fails[1]

\* C7: the today check is one request; it is true iff the request succeeds
\* and one of the posts returned is of the current UTC day; a failure makes
\* it false and never ends the run.
C7_TodayCheck ==
  /\ \A i \in DOMAIN runs :
       runs[i].pc # "today"
         => runs[i].postedToday
              = (runs[i].todayResp = "ok"
                 /\ FeedHasDay(ServerPage(0, TodayLimit).feed, runs[i].today))
  /\ ended.pc = "done"
       => ended.postedToday
            = (ended.todayResp = "ok"
               /\ FeedHasDay(ServerPage(0, TodayLimit).feed, ended.today))
  /\ ended.why # "today"

C7_Witness ==
  /\ ended.pc = "done" /\ ended.todayResp = "error" /\ ~ended.postedToday
  /\ HasPostOn(ended.today)

\* C8: a click on refresh while a refresh is in flight changes nothing: the
\* cache and the persisted record are kept, no run starts, no request is
\* issued, nothing is queued, the guard stays set and the display is untouched.
C8_RefreshDropped ==
  [][(isRefreshing /\ budget'.clicks < budget.clicks)
       => UNCHANGED <<cache, store, isRefreshing, refresh, runs, started, ended,
                      dom, calls, debounceTimeout, clock>>]_vars

C8_Witness == budget.dropped > 0 /\ isRefreshing /\ refresh = "update"

\* C9: at most one run of updateFunc is in progress at any time.
C9_SingleFlight == Cardinality(DOMAIN runs) <= 1

\* C10: every readiness signal cancels the pending timer and schedules a run
\* 300 ms later; it never starts a run at once.
C10_Debounced ==
  [][(budget'.signals < budget.signals)
       => /\ debounceTimeout' = [st |-> "pending", ms |-> 300]
          /\ started' = started]_vars

\* C11: an accepted refresh empties the cache and removes the persisted
\* record in the step that accepts it, before any request of its run is
\* issued; the refresh then starts its run; and every call answered from the
\* cache is answered from an entry written since the cache was last cleared.
C11_RefreshClears ==
  [][/\ (budget'.clicks < budget.clicks /\ budget'.dropped = budget.dropped)
          => /\ cache' = << >>
             /\ store' = {}
             /\ runs' = runs /\ started' = started
             /\ refresh' = "delay" \/ debounceTimeout'.st = "pending"
     /\ (refresh = "delay" /\ refresh' # "delay")
          => /\ started' = started + 1
             /\ \/ started' \in DOMAIN runs' /\ runs'[started'].kind = "refresh"
                \/ ended'.id = started' /\ ended'.why \in {"help", "profile"}
     /\ \A h \in calls'.hits : h.prior # {}]_vars

\* C12: when a run fails, the display afterwards holds no streak, no loading
\* indicator and no "Refreshing..." container: only the error message.
C12_OnlyError ==
  [][(ended' # ended /\ ended'.pc = "failed")
       => /\ dom'.main = {}
          /\ dom'.loading = 0]_vars

\* C13: the display never holds more than one error message, and after a
\* failed run it holds exactly one.
C13_OneError ==
  [][/\ Len(dom'.errors) <= 1
     /\ (ended' # ended /\ ended'.pc = "failed") => Len(dom'.errors) = 1]_vars

\* C14: a body without a feed array received by getPostsForDay is handled as a
\* failed request: no call that received one returns a boolean or writes the
\* cache; the call waits and retries, or throws.
C14_MalformedRetried ==
  /\ calls.net.result \in {"true", "false"}
       => \A n \in 1 .. Len(calls.net.pages) : calls.net.pages[n].kind = "ok"
  /\ \A lk \in Lookups :
       \A n \in 1 .. Len(lk.pages) : lk.pages[n].kind = "ok"

\* C15: the persisted record does not influence what a run delivers: two runs
\* that complete one after the other on the same UTC day of a session without
\* a failed response, over the same feed, deliver the same total and the same
\* postedToday flag, whatever record either found in the store.
C15_StoreIgnored ==
  [][(/\ ended.pc = "done" /\ ended'.pc = "done" /\ ended'.id # ended.id
      /\ budget'.failed = 0
      /\ ended'.today = ended.today
      /\ getUTCDate(ended'.D) = getUTCDate(ended.D))
       => ended'.out = ended.out]_vars

\* C16: when a lookup of calculateStreak throws, the run ends without a count:
\* it writes no record and displays no streak, and nothing starts or
\* schedules another run; a run starts only on a readiness signal, on the
\* debounce timer a signal has set, or at the end of the wait of a refresh.
C16_LookupFailure ==
  [][/\ \A i \in DOMAIN runs :
          (/\ runs[i].pc = "lookup" /\ runs[i].lk.retries = 0
           /\ i \notin DOMAIN runs' \/ runs'[i] # runs[i]
           /\ budget'.failed > budget.failed /\ calls'.net.result = "thrown")
          => /\ i \notin DOMAIN runs' /\ ended'.id = i
             /\ ended'.pc = "failed" /\ ended'.why = "lookup" /\ ended'.out = << >>
             /\ store' = store
             /\ dom'.main = dom.main
             /\ started' = started
             /\ debounceTimeout' = debounceTimeout
             /\ refresh' = "delay" => refresh = "delay"
     /\ started' # started
          => \/ budget'.signals < budget.signals
             \/ debounceTimeout.st = "pending" /\ debounceTimeout'.st = "done"
             \/ refresh = "delay"]_vars

C16_Witness ==
  /\ ended.pc = "failed" /\ ended.why = "lookup" /\ ended.streak >= 1
  /\ store = {} /\ dom.main = {} /\ runs = << >>

\* C17: a run in progress is never cancelled: it stays in progress until it
\* ends itself; and the result left displayed and persisted when all runs are
\* over is that of the run that started last: no run that completes last
\* replaces the different result of a run that started after it.
C17_LastStartedWins ==
  [][/\ \A i \in DOMAIN runs : i \in DOMAIN runs' \/ ended'.id = i
     /\ (/\ ended' # ended /\ ended'.pc = "done" /\ ended.pc = "done"
         /\ ended.id > ended'.id
         /\ runs' = << >> /\ debounceTimeout'.st # "pending" /\ refresh' = "idle")
          => ended'.out = ended.out]_vars

\* C18: a call of getPostsForDay that throws has written nothing: the step in
\* which it throws leaves the cache unchanged, and the cache then holds no
\* entry for the day, so that the next call for the day uses the network.
C18_ErrorNotCached ==
  [][\A i \in DOMAIN runs :
       (/\ runs[i].pc = "lookup" /\ runs[i].lk.retries = 0
        /\ i \notin DOMAIN runs' \/ runs'[i] # runs[i]
        /\ budget'.failed > budget.failed /\ calls'.net.result = "thrown")
       => /\ cache' = cache
          /\ ~CacheHas(cache', runs[i].lk.day)]_vars

\* C19: the guard is held exactly while an accepted refresh is in flight and
\* is always released in the end, whether the recomputation completes or
\* fails; a click is dropped only while a refresh is in flight.
C19_GuardReleased ==
  /\ isRefreshing ~> ~isRefreshing
  /\ [](isRefreshing <=> refresh # "idle")
  /\ [][budget'.dropped > budget.dropped => refresh \in {"delay", "update"}]_vars

C19_Witness ==
  /\ ~isRefreshing /\ refresh = "idle"
  /\ ended.kind = "refresh" /\ ended.pc = "failed" /\ ended.id = 3
  /\ budget.clicks = 0 /\ budget.dropped = 0

\* C20: no day is counted twice in the total of a run: the day the today
\* check found a post on is none of the days the walk has counted.
C20_NoDayTwice ==
  (ended.pc = "done" /\ ended.postedToday)
    => ended.today \notin (getUTCDate(ended.D) - ended.streak) .. (getUTCDate(ended.D) - 1)

====
